---- MODULE Spec2Model ----
(***************************************************************************)
(* The rate-controlled UDP traffic generator (package main with the        *)
(* -pps / -duration flags): the main goroutine (Lifecycle Controller), the *)
(* reporter goroutine and the packet sender goroutine, cooperating through *)
(* the mutex mu, the counters packetsSent / bytesSent and the channel      *)
(* stopChan.  Durations are measured in microseconds.                      *)
(*                                                                         *)
(* Two more programs of the repository are modelled, each with its own     *)
(* variables and its own specification: the UDP receiver (RecvSpec), which *)
(* has the same three goroutines around packetsReceived / bytesReceived,   *)
(* and the CONNECT tunnel of the HTTP proxy (TunSpec): handleTunneling and *)
(* the two transfer goroutines.  A specification leaves the variables of   *)
(* the other programs at their initial values.                             *)
(***************************************************************************)
EXTENDS Integers, Sequences, FiniteSets, TLC

\* ------------------------------------------------------------------ bounds
\* The most iterations of the sender loop that reach the serializer.
MaxIter == 2
\* Wall-clock time advances in steps of this many microseconds.
TickMicros == 200000
\* Status lines printed after the close of stopChan are counted up to here.
LinesCap == 2

\* The most packets the capture delivers to the receiver.
MaxPackets == 2
\* The most chunks each peer of a tunnel sends.
MaxChunks == 1

\* ------------------------------------------------------- program constants
\* time.Duration(1000000/(*pps)) * time.Microsecond
MicrosPerSecond == 1000000
\* time.Sleep(200 * time.Millisecond), in microseconds
GraceMicros == 200000
\* flag.Int("report", 1, ...): the reporting interval, in seconds
ReportIntervalSec == 1

\* ------------------------------------------------------------ input ranges
\* Values of -pps: invalid (negative, zero), slow, and faster than one
\* packet per microsecond.
PpsValues == {-1, 0, 1, 2000000}
\* Values of -duration in microseconds (0 for indefinite).
DurationValues == {0, 400000}
\* len(packetData): the headers plus -size bytes of payload.
FrameLens == {1442}

\* len(packet.Data()) of the captured packets.
PacketSizes == {60, 1442}
\* The two transfer goroutines: "up" is transfer(destConn, clientConn),
\* "down" is transfer(clientConn, destConn).
Directions == {"up", "down"}
\* The two connections of a tunnel.
Conns == {"client", "dest"}

VARIABLES
    pps,            \* *pps
    duration,       \* *duration, microseconds
    frameLen,       \* len(buf.Bytes()) of every serialized frame
    proc,           \* the process: "running", "fatal", "panicClose", "panicDiv", "exited"
    mpc,            \* position of the main goroutine
    rpc,            \* position of the reporter goroutine ("none": not started)
    spc,            \* position of the sender goroutine ("none": not started)
    sigPending,     \* an os.Interrupt is buffered in sigChan
    stopChan,       \* "open" or "closed"
    closedBy,       \* which goroutine closed stopChan: "none", "sender", "main"
    mu,             \* holder of the mutex: "free", "main", "reporter", "sender"
    packetsSent,
    bytesSent,
    lastPackets,
    lastBytes,
    currentPackets,
    currentBytes,
    intervalPackets,
    intervalBytes,
    finalPackets,
    finalBytes,
    sleepDuration,  \* microseconds
    sleepLeft,      \* what remains of the sender's time.Sleep
    graceLeft,      \* what remains of main's time.Sleep
    tickerLeft,     \* time to the ticker's next tick
    tickPending,    \* a tick is buffered in ticker.C
    elapsed,        \* time.Now() - startTime, saturating once past the duration
    iters,          \* sender iterations that reached SerializeLayers
    txOk,           \* calls of WritePacketData that returned nil
    errLog,         \* lines written by log.Printf
    lastOutcome,    \* of the latest iteration: "none", "ok", "serErr", "txErr"
    sleeps,         \* calls of time.Sleep(sleepDuration) that have returned
    linesAfterStop, \* status lines printed since stopChan was closed
    packetsAtClose, \* packetsSent when stopChan was closed
    linesPackets,   \* sum of the interval packet counts printed so far
    linesBytes      \* sum of the interval byte counts printed so far

config == <<pps, duration, frameLen>>
ctl == <<proc, mpc, rpc, spc>>
chans == <<sigPending, stopChan, closedBy>>
counters == <<packetsSent, bytesSent>>
repLocals == <<lastPackets, lastBytes, currentPackets, currentBytes,
               intervalPackets, intervalBytes>>
mainLocals == <<finalPackets, finalBytes>>
timers == <<sleepLeft, graceLeft, tickerLeft, tickPending, elapsed>>
sendHist == <<iters, txOk, errLog, lastOutcome>>
output == <<linesAfterStop, linesPackets, linesBytes>>
obs == <<sleeps, packetsAtClose, output>>

\* The receiver.
VARIABLES
    recvProc,           \* the process: "running", "fatal", "exited"
    recvMpc,            \* position of the main goroutine
    recvRpc,            \* position of the reporter goroutine
    recvWpc,            \* position of the packet processing goroutine
    recvSigPending,     \* an os.Interrupt is buffered in sigChan
    recvStopChan,       \* "open" or "closed"
    recvClosedBy,       \* which goroutine closed stopChan: "none", "main"
    recvMu,             \* holder of mu: "free", "main", "reporter", "worker"
    packetsReceived,
    bytesReceived,
    packetSize,         \* of the packet being processed
    recvLastPackets,
    recvLastBytes,
    recvCurrentPackets,
    recvCurrentBytes,
    recvFinalPackets,
    recvFinalBytes,
    recvGraceLeft,      \* what remains of main's time.Sleep
    recvTickerLeft,     \* time to the ticker's next tick
    recvTickPending,    \* a tick is buffered in ticker.C
    recvDelivered,      \* packets taken from packetSource.Packets()
    recvCounted         \* non-nil packets taken from packetSource.Packets()

recvCtl == <<recvProc, recvMpc, recvRpc, recvWpc>>
recvChans == <<recvSigPending, recvStopChan, recvClosedBy>>
recvCounters == <<packetsReceived, bytesReceived>>
recvRepLocals == <<recvLastPackets, recvLastBytes, recvCurrentPackets,
                   recvCurrentBytes>>
recvMainLocals == <<recvFinalPackets, recvFinalBytes>>
recvTimers == <<recvGraceLeft, recvTickerLeft, recvTickPending>>
recvSource == <<recvDelivered, recvCounted, packetSize>>
recvVars == <<recvCtl, recvChans, recvMu, recvCounters, recvRepLocals,
              recvMainLocals, recvTimers, recvSource>>

\* The proxy's CONNECT tunnel.
VARIABLES
    hpc,            \* position of handleTunneling
    handlerPath,    \* how it returned: "none", "dialErr", "noHijacker", "hijackErr", "tunnel"
    destConn,       \* "none", "open", "closed" (closed by this process)
    clientConn,     \* "server" (owned by net/http), "open" (hijacked), "closed"
    tpc,            \* position of each transfer goroutine
    peer,           \* each remote end: "open" or "closed"
    inbound,        \* chunks received from each remote end and not yet read
    sent,           \* chunks each remote end has sent
    forwarded       \* chunks each transfer goroutine has written

tunConns == <<destConn, clientConn>>
tunPeers == <<peer, inbound, sent>>
tunVars == <<hpc, handlerPath, tunConns, tpc, peer, inbound, sent, forwarded>>

genVars == <<config, ctl, chans, mu, counters, repLocals, mainLocals,
             sleepDuration, timers, sendHist, obs>>
\* What each program leaves alone.
notGen == <<recvVars, tunVars>>
notRecv == <<genVars, tunVars>>
notTun == <<genVars, recvVars>>

vars == <<genVars, recvVars, tunVars>>

\* ---------------------------------------------------------------- helpers
Abs(x) == IF x < 0 THEN -x ELSE x

\* Go's integer division truncates toward zero (b # 0).
GoDiv(a, b) ==
    IF (a < 0) = (b < 0) THEN Abs(a) \div Abs(b) ELSE -(Abs(a) \div Abs(b))

SleepDurationMillis(p) == GoDiv(1000, p)

\* sleepDuration := time.Duration(1000000/(*pps)) * time.Microsecond
SleepDurationOf(p) == GoDiv(MicrosPerSecond, p)

MuFreeNoExclusion == TRUE

\* mu.Lock() returns only when no goroutine holds mu.
MuFree == mu = "free"

\* *duration > 0 && time.Now().After(endTime), endTime = startTime + *duration
Expired == duration > 0 /\ elapsed > duration

LogFatalf(p) == "fatal"

\* log.Printf writes a line and returns: the process goes on.
LogPrintf(p) == p

ContinueToUpdate(ok) == "lock"

\* After WritePacketData: `continue` on an error, else on to mu.Lock().
AfterWrite(ok) == IF ok THEN "lock" ELSE "select"

StopNeverReady == FALSE

\* case <-stopChan is ready exactly when stopChan has been closed.
StopReady == stopChan = "closed"

SetBytes(b, n) == n

\* bytesSent += uint64(len(packetData))
AddBytes(b, n) == b + n

IntervalIsTotal(cur, last) == cur

\* intervalPackets := currentPackets - lastPackets (and the same for bytes)
IntervalOf(cur, last) == cur - last

Min(a, b) == IF a < b THEN a ELSE b

Running == proc = "running"

\* ------------------------------------------------------------------- Init
\* The receiver after flag.Parse().
RecvInit ==
    /\ recvProc = "running"
    /\ recvMpc = "setup"
    /\ recvRpc = "none"
    /\ recvWpc = "none"
    /\ recvSigPending = FALSE
    /\ recvStopChan = "open"
    /\ recvClosedBy = "none"
    /\ recvMu = "free"
    /\ packetsReceived = 0
    /\ bytesReceived = 0
    /\ packetSize = 0
    /\ recvLastPackets = 0
    /\ recvLastBytes = 0
    /\ recvCurrentPackets = 0
    /\ recvCurrentBytes = 0
    /\ recvFinalPackets = 0
    /\ recvFinalBytes = 0
    /\ recvGraceLeft = 0
    /\ recvTickerLeft = 0
    /\ recvTickPending = FALSE
    /\ recvDelivered = 0
    /\ recvCounted = 0

\* A CONNECT request has reached handleTunneling.
TunInit ==
    /\ hpc = "dial"
    /\ handlerPath = "none"
    /\ destConn = "none"
    /\ clientConn = "server"
    /\ tpc = [w \in Directions |-> "none"]
    /\ peer = [c \in Conns |-> "open"]
    /\ inbound = [c \in Conns |-> 0]
    /\ sent = [c \in Conns |-> 0]
    /\ forwarded = [w \in Directions |-> 0]

Init ==
    /\ pps \in PpsValues
    /\ duration \in DurationValues
    /\ frameLen \in FrameLens
    /\ proc = "running"
    /\ mpc = "setup"
    /\ rpc = "none"
    /\ spc = "none"
    /\ sigPending = FALSE
    /\ stopChan = "open"
    /\ closedBy = "none"
    /\ mu = "free"
    /\ packetsSent = 0
    /\ bytesSent = 0
    /\ lastPackets = 0
    /\ lastBytes = 0
    /\ currentPackets = 0
    /\ currentBytes = 0
    /\ intervalPackets = 0
    /\ intervalBytes = 0
    /\ finalPackets = 0
    /\ finalBytes = 0
    /\ sleepDuration = 0
    /\ sleepLeft = 0
    /\ graceLeft = 0
    /\ tickerLeft = 0
    /\ tickPending = FALSE
    /\ elapsed = 0
    /\ iters = 0
    /\ txOk = 0
    /\ errLog = 0
    /\ lastOutcome = "none"
    /\ sleeps = 0
    /\ linesAfterStop = 0
    /\ packetsAtClose = 0
    /\ linesPackets = 0
    /\ linesBytes = 0
    /\ RecvInit
    /\ TunInit

\* --------------------------------------------------------- main goroutine
\* Lines 21-144: flags, device, addresses, layers, signal.Notify, the
\* counters, startTime and stopChan.  Any failure is a log.Fatal; *pps is
\* not examined.
MainSetup ==
    /\ Running /\ mpc = "setup"
    /\ \E ok \in BOOLEAN :
         IF ok THEN /\ mpc' = "goReporter"
                    /\ proc' = proc
               ELSE /\ mpc' = "fatal"
                    /\ proc' = "fatal"
    /\ UNCHANGED <<obs, config, notGen, rpc, spc, chans, mu, counters, repLocals,
                   mainLocals, sleepDuration, timers, sendHist>>

\* go func() { ticker := time.NewTicker(...) ... }()
MainGoReporter ==
    /\ Running /\ mpc = "goReporter"
    /\ mpc' = "goSender"
    /\ rpc' = "select"
    /\ tickerLeft' = ReportIntervalSec * MicrosPerSecond
    /\ UNCHANGED <<obs, config, notGen, proc, spc, chans, mu, counters, repLocals,
                   mainLocals, sleepDuration, sleepLeft, graceLeft,
                   tickPending, elapsed, sendHist>>

\* go func() { sleepDuration := ... }()
MainGoSender ==
    /\ Running /\ mpc = "goSender"
    /\ mpc' = "wait"
    /\ spc' = "calc"
    /\ UNCHANGED <<obs, config, notGen, proc, rpc, chans, mu, counters, repLocals,
                   mainLocals, sleepDuration, timers, sendHist>>

\* <-sigChan
MainWait ==
    /\ Running /\ mpc = "wait"
    /\ sigPending
    /\ sigPending' = FALSE
    /\ mpc' = "close"
    /\ UNCHANGED <<obs, config, notGen, proc, rpc, spc, stopChan, closedBy, mu, counters,
                   repLocals, mainLocals, sleepDuration, timers, sendHist>>

\* close(stopChan): closing a closed channel panics.
MainClose ==
    /\ Running /\ mpc = "close"
    /\ IF stopChan = "closed"
         THEN /\ proc' = "panicClose"
              /\ UNCHANGED <<mpc, stopChan, closedBy, graceLeft,
                             packetsAtClose>>
         ELSE /\ stopChan' = "closed"
              /\ closedBy' = "main"
              /\ packetsAtClose' = packetsSent
              /\ mpc' = "grace"
              /\ graceLeft' = GraceMicros
              /\ proc' = proc
    /\ UNCHANGED <<sleeps, output, config, notGen, rpc, spc, sigPending, mu, counters, repLocals,
                   mainLocals, sleepDuration, sleepLeft, tickerLeft,
                   tickPending, elapsed, sendHist>>

\* time.Sleep(200 * time.Millisecond) returns.
MainGraceOver ==
    /\ Running /\ mpc = "grace"
    /\ graceLeft <= 0
    /\ mpc' = "lock"
    /\ UNCHANGED <<obs, config, notGen, proc, rpc, spc, chans, mu, counters, repLocals,
                   mainLocals, sleepDuration, timers, sendHist>>

MainLock ==
    /\ Running /\ mpc = "lock"
    /\ MuFree
    /\ mu' = "main"
    /\ mpc' = "readP"
    /\ UNCHANGED <<obs, config, notGen, proc, rpc, spc, chans, counters, repLocals,
                   mainLocals, sleepDuration, timers, sendHist>>

MainReadPackets ==
    /\ Running /\ mpc = "readP"
    /\ finalPackets' = packetsSent
    /\ mpc' = "readB"
    /\ UNCHANGED <<obs, config, notGen, proc, rpc, spc, chans, mu, counters, repLocals,
                   finalBytes, sleepDuration, timers, sendHist>>

MainReadBytes ==
    /\ Running /\ mpc = "readB"
    /\ finalBytes' = bytesSent
    /\ mpc' = "unlock"
    /\ UNCHANGED <<obs, config, notGen, proc, rpc, spc, chans, mu, counters, repLocals,
                   finalPackets, sleepDuration, timers, sendHist>>

MainUnlock ==
    /\ Running /\ mpc = "unlock"
    /\ mu' = "free"
    /\ mpc' = "print"
    /\ UNCHANGED <<obs, config, notGen, proc, rpc, spc, chans, counters, repLocals,
                   mainLocals, sleepDuration, timers, sendHist>>

\* The summary line, then main returns: the process exits and the other
\* goroutines run no more.
MainPrintExit ==
    /\ Running /\ mpc = "print"
    /\ mpc' = "done"
    /\ proc' = "exited"
    /\ UNCHANGED <<obs, config, notGen, rpc, spc, chans, mu, counters, repLocals,
                   mainLocals, sleepDuration, timers, sendHist>>

Main ==
    \/ MainSetup \/ MainGoReporter \/ MainGoSender \/ MainWait \/ MainClose
    \/ MainGraceOver \/ MainLock \/ MainReadPackets \/ MainReadBytes
    \/ MainUnlock \/ MainPrintExit

\* ----------------------------------------------------- reporter goroutine
\* select: case <-ticker.C
ReporterTick ==
    /\ Running /\ rpc = "select"
    /\ tickPending
    /\ tickPending' = FALSE
    /\ rpc' = "lock"
    /\ UNCHANGED <<obs, config, notGen, proc, mpc, spc, chans, mu, counters, repLocals,
                   mainLocals, sleepDuration, sleepLeft, graceLeft,
                   tickerLeft, elapsed, sendHist>>

\* select: case <-stopChan: return (the deferred ticker.Stop() runs)
ReporterStop ==
    /\ Running /\ rpc = "select"
    /\ StopReady
    /\ rpc' = "done"
    /\ tickPending' = FALSE
    /\ tickerLeft' = 0
    /\ UNCHANGED <<obs, config, notGen, proc, mpc, spc, chans, mu, counters, repLocals,
                   mainLocals, sleepDuration, sleepLeft, graceLeft, elapsed,
                   sendHist>>

ReporterLock ==
    /\ Running /\ rpc = "lock"
    /\ MuFree
    /\ mu' = "reporter"
    /\ rpc' = "readP"
    /\ UNCHANGED <<obs, config, notGen, proc, mpc, spc, chans, counters, repLocals,
                   mainLocals, sleepDuration, timers, sendHist>>

\* currentPackets := packetsSent
ReporterReadPackets ==
    /\ Running /\ rpc = "readP"
    /\ currentPackets' = packetsSent
    /\ rpc' = "readB"
    /\ UNCHANGED <<obs, config, notGen, proc, mpc, spc, chans, mu, counters, lastPackets,
                   lastBytes, currentBytes, intervalPackets, intervalBytes,
                   mainLocals, sleepDuration, timers, sendHist>>

\* currentBytes := bytesSent, the two intervals and the two last values
ReporterReadBytes ==
    /\ Running /\ rpc = "readB"
    /\ currentBytes' = bytesSent
    /\ intervalPackets' = IntervalOf(currentPackets, lastPackets)
    /\ intervalBytes' = IntervalOf(bytesSent, lastBytes)
    /\ lastPackets' = currentPackets
    /\ lastBytes' = bytesSent
    /\ rpc' = "unlock"
    /\ UNCHANGED <<obs, config, notGen, proc, mpc, spc, chans, mu, counters,
                   currentPackets, mainLocals, sleepDuration, timers,
                   sendHist>>

ReporterUnlock ==
    /\ Running /\ rpc = "unlock"
    /\ mu' = "free"
    /\ rpc' = "print"
    /\ UNCHANGED <<obs, config, notGen, proc, mpc, spc, chans, counters, repLocals,
                   mainLocals, sleepDuration, timers, sendHist>>

\* The status line, then back to the select.
ReporterPrint ==
    /\ Running /\ rpc = "print"
    /\ rpc' = "select"
    /\ linesPackets' = linesPackets + intervalPackets
    /\ linesBytes' = linesBytes + intervalBytes
    /\ linesAfterStop' = IF stopChan = "closed"
                           THEN Min(linesAfterStop + 1, LinesCap)
                           ELSE linesAfterStop
    /\ UNCHANGED <<sleeps, packetsAtClose, config, notGen, proc, mpc, spc, chans, mu, counters, repLocals,
                   mainLocals, sleepDuration, timers, sendHist>>

Reporter ==
    \/ ReporterTick \/ ReporterStop \/ ReporterLock \/ ReporterReadPackets
    \/ ReporterReadBytes \/ ReporterUnlock \/ ReporterPrint

\* ------------------------------------------------------- sender goroutine
\* sleepDuration := ...: an integer division by *pps, which panics when
\* *pps is 0; then endTime.
SenderCalc ==
    /\ Running /\ spc = "calc"
    /\ IF pps = 0
         THEN /\ proc' = "panicDiv"
              /\ UNCHANGED <<spc, sleepDuration>>
         ELSE /\ sleepDuration' = SleepDurationOf(pps)
              /\ spc' = "select"
              /\ proc' = proc
    /\ UNCHANGED <<obs, config, notGen, mpc, rpc, chans, mu, counters, repLocals,
                   mainLocals, timers, sendHist>>

\* select: case <-stopChan: return
SenderStop ==
    /\ Running /\ spc = "select"
    /\ StopReady
    /\ spc' = "done"
    /\ UNCHANGED <<obs, config, notGen, proc, mpc, rpc, chans, mu, counters, repLocals,
                   mainLocals, sleepDuration, timers, sendHist>>

\* select: default (stopChan is not ready).  Once MaxIter iterations have
\* run the sender is held here until the stop or the expiry.
SenderDefault ==
    /\ Running /\ spc = "select"
    /\ ~StopReady
    /\ iters < MaxIter \/ Expired
    /\ spc' = "durcheck"
    /\ UNCHANGED <<obs, config, notGen, proc, mpc, rpc, chans, mu, counters, repLocals,
                   mainLocals, sleepDuration, timers, sendHist>>

\* if *duration > 0 && time.Now().After(endTime) { close(stopChan); return }
SenderDurationCheck ==
    /\ Running /\ spc = "durcheck"
    /\ IF Expired
         THEN IF stopChan = "closed"
                THEN /\ proc' = "panicClose"
                     /\ UNCHANGED <<spc, stopChan, closedBy, packetsAtClose>>
                ELSE /\ stopChan' = "closed"
                     /\ closedBy' = "sender"
                     /\ packetsAtClose' = packetsSent
                     /\ spc' = "done"
                     /\ proc' = proc
         ELSE /\ spc' = "serialize"
              /\ UNCHANGED <<proc, stopChan, closedBy, packetsAtClose>>
    /\ UNCHANGED <<sleeps, output, config, notGen, mpc, rpc, sigPending, mu, counters, repLocals,
                   mainLocals, sleepDuration, timers, sendHist>>

\* err = gopacket.SerializeLayers(...); on an error log it and continue.
SenderSerialize ==
    /\ Running /\ spc = "serialize"
    /\ iters' = iters + 1
    /\ \E ok \in BOOLEAN :
         IF ok THEN /\ spc' = "write"
                    /\ UNCHANGED <<proc, errLog, lastOutcome>>
               ELSE /\ errLog' = errLog + 1
                    /\ lastOutcome' = "serErr"
                    /\ proc' = LogPrintf(proc)
                    /\ spc' = "select"
    /\ UNCHANGED <<obs, config, notGen, mpc, rpc, chans, mu, counters, repLocals,
                   mainLocals, sleepDuration, timers, txOk>>

\* err = handle.WritePacketData(packetData); on an error log it and continue.
SenderWrite ==
    /\ Running /\ spc = "write"
    /\ \E ok \in BOOLEAN :
         /\ spc' = AfterWrite(ok)
         /\ IF ok THEN /\ txOk' = txOk + 1
                       /\ UNCHANGED <<proc, errLog, lastOutcome>>
                  ELSE /\ errLog' = errLog + 1
                       /\ lastOutcome' = "txErr"
                       /\ proc' = LogPrintf(proc)
                       /\ txOk' = txOk
    /\ UNCHANGED <<obs, config, notGen, mpc, rpc, chans, mu, counters, repLocals,
                   mainLocals, sleepDuration, timers, iters>>

SenderLock ==
    /\ Running /\ spc = "lock"
    /\ MuFree
    /\ mu' = "sender"
    /\ spc' = "incP"
    /\ UNCHANGED <<obs, config, notGen, proc, mpc, rpc, chans, counters, repLocals,
                   mainLocals, sleepDuration, timers, sendHist>>

\* packetsSent++
SenderIncPackets ==
    /\ Running /\ spc = "incP"
    /\ packetsSent' = packetsSent + 1
    /\ spc' = "addB"
    /\ UNCHANGED <<obs, config, notGen, proc, mpc, rpc, chans, mu, bytesSent, repLocals,
                   mainLocals, sleepDuration, timers, sendHist>>

\* bytesSent += uint64(len(packetData))
SenderAddBytes ==
    /\ Running /\ spc = "addB"
    /\ bytesSent' = AddBytes(bytesSent, frameLen)
    /\ spc' = "unlock"
    /\ UNCHANGED <<obs, config, notGen, proc, mpc, rpc, chans, mu, packetsSent, repLocals,
                   mainLocals, sleepDuration, timers, sendHist>>

\* mu.Unlock(), and time.Sleep(sleepDuration) begins.
SenderUnlock ==
    /\ Running /\ spc = "unlock"
    /\ mu' = "free"
    /\ spc' = "sleep"
    /\ sleepLeft' = sleepDuration
    /\ lastOutcome' = "ok"
    /\ UNCHANGED <<obs, config, notGen, proc, mpc, rpc, chans, counters, repLocals,
                   mainLocals, sleepDuration, graceLeft, tickerLeft,
                   tickPending, elapsed, iters, txOk, errLog>>

\* time.Sleep returns (at once when the duration is zero or negative).
SenderWake ==
    /\ Running /\ spc = "sleep"
    /\ sleepLeft <= 0
    /\ sleepLeft' = 0
    /\ spc' = "select"
    /\ sleeps' = sleeps + 1
    /\ UNCHANGED <<packetsAtClose, output, config, notGen, proc, mpc, rpc, chans, mu, counters, repLocals,
                   mainLocals, sleepDuration, graceLeft, tickerLeft,
                   tickPending, elapsed, sendHist>>

Sender ==
    \/ SenderCalc \/ SenderStop \/ SenderDefault \/ SenderDurationCheck
    \/ SenderSerialize \/ SenderWrite \/ SenderLock \/ SenderIncPackets
    \/ SenderAddBytes \/ SenderUnlock \/ SenderWake

\* ------------------------------------------------------------ environment
\* An os.Interrupt arrives after signal.Notify, which puts it in sigChan
\* (capacity 1; a signal that finds the buffer full is dropped).
Interrupt ==
    /\ Running /\ mpc # "setup"
    /\ ~sigPending
    /\ sigPending' = TRUE
    /\ UNCHANGED <<obs, config, notGen, ctl, stopChan, closedBy, mu, counters, repLocals,
                   mainLocals, sleepDuration, timers, sendHist>>

\* TickMicros of wall-clock time pass.
Tick ==
    /\ Running /\ mpc # "setup"
    /\ elapsed' = IF duration > 0 /\ elapsed <= duration
                    THEN elapsed + TickMicros ELSE elapsed
    /\ sleepLeft' = IF spc = "sleep" /\ sleepLeft > 0
                      THEN sleepLeft - TickMicros ELSE sleepLeft
    /\ graceLeft' = IF mpc = "grace" /\ graceLeft > 0
                      THEN graceLeft - TickMicros ELSE graceLeft
    /\ IF rpc \in {"none", "done"}
         THEN UNCHANGED <<tickerLeft, tickPending>>
         ELSE IF tickerLeft - TickMicros <= 0
                THEN /\ tickerLeft' = ReportIntervalSec * MicrosPerSecond
                     /\ tickPending' = TRUE
                ELSE /\ tickerLeft' = tickerLeft - TickMicros
                     /\ tickPending' = tickPending
    /\ UNCHANGED <<obs, config, notGen, ctl, chans, mu, counters, repLocals, mainLocals,
                   sleepDuration, sendHist>>

Next == Main \/ Reporter \/ Sender \/ Interrupt \/ Tick

Spec == Init /\ [][Next]_vars

\* The Go scheduler runs every runnable goroutine eventually and the clock
\* advances; sync.Mutex hands the lock to a waiter eventually (starvation
\* mode); a select with several ready cases picks each with probability
\* 1/n, so a case that is ready again and again is eventually taken.  No
\* interrupt is ever promised.
Fairness ==
    /\ WF_vars(Tick)
    /\ WF_vars(Main) /\ SF_vars(MainLock)
    /\ WF_vars(Reporter) /\ SF_vars(ReporterLock) /\ SF_vars(ReporterStop)
    /\ WF_vars(Sender) /\ SF_vars(SenderLock)

FairSpec == Spec /\ Fairness

\* ----------------------------------------------------------------- claims
\* An os.Interrupt has been delivered to the process.
Interrupted == sigPending \/ mpc \in {"close", "grace", "lock", "readP",
                                       "readB", "unlock", "print", "done"}

\* The sender is in its for loop; the reporter is in its for loop.
SenderInLoop == spc \notin {"none", "calc", "done"}
ReporterInLoop == rpc \notin {"none", "done"}

\* The sender goroutine was started and runs no more.
SenderLeftRunning == spc = "done" \/ (spc # "none" /\ proc # "running")

\* (p, b) is what the counters hold after the first k successful sends.
PrefixPair(p, b) == \E k \in 0..txOk : p = k /\ b = k * frameLen

\* C1: firing the StopSignal a second time is a no-op: no run with a valid
\* rate reaches the crash of closing stopChan twice.
C1_SecondFiringIsNoOp == pps > 0 => proc # "panicClose"

\* C2: once the sender's duration check has fired the StopSignal and no
\* interrupt has come, the controller eventually prints the summary and
\* exits (or an interrupt comes).
C2_ControllerWakesOnSenderStop ==
    (pps > 0 /\ closedBy = "sender" /\ ~Interrupted)
      ~> (mpc = "done" \/ Interrupted)

\* C3: every (packets, bytes) pair held by a reader outside its two reads
\* is the counters' value after some prefix of the successful sends.
C3_SnapshotsArePrefixes ==
    /\ rpc # "readB" => PrefixPair(currentPackets, currentBytes)
    /\ mpc # "readB" => PrefixPair(finalPackets, finalBytes)

C3_Witness ==
    /\ rpc = "unlock" /\ currentPackets = 1 /\ currentBytes = frameLen
    /\ txOk = 2 /\ spc = "lock"

\* C4: an interrupt delivered while both workers are in their loops (valid
\* rate, no run duration, the sender in a pacing sleep longer than the
\* grace period) leads to both having returned.
C4_InterruptStopsBothWorkers ==
    (pps > 0 /\ duration = 0 /\ proc = "running" /\ sigPending
        /\ mpc = "wait" /\ ReporterInLoop /\ SenderInLoop
        /\ spc = "sleep" /\ sleepLeft > GraceMicros)
      ~> (spc = "done" /\ rpc = "done")

\* C5: when the process has exited after the summary (valid rate), the
\* totals of the summary are the counters' final values.
C5_SummaryEqualsFinalCounters ==
    (pps > 0 /\ proc = "exited") =>
        finalPackets = packetsSent /\ finalBytes = bytesSent

\* C6: a step that logs a serialization or transmit error changes neither
\* counter and leaves the sender at the top of its loop in a running
\* process; packets are counted only for successful sends, at most one
\* per iteration that did not fail.
C6_FailedIterationSkipped ==
    [][/\ errLog' # errLog =>
            /\ packetsSent' = packetsSent /\ bytesSent' = bytesSent
            /\ spc' = "select" /\ proc' = "running"
       /\ packetsSent' <= txOk' /\ txOk' + errLog' <= iters']_vars

C6_Witness ==
    /\ iters = 2 /\ errLog = 1 /\ lastOutcome = "ok" /\ packetsSent = 1
    /\ bytesSent = frameLen

\* C7: a step that logs a per-iteration error neither closes stopChan nor
\* ends the process, and stopChan is closed only by the sender's duration
\* check with the duration expired or by main after the interrupt.
C7_ErrorsNeverStop ==
    [][/\ errLog' # errLog => stopChan' = stopChan /\ proc' = "running"
       /\ (stopChan = "open" /\ stopChan' = "closed") =>
            \/ spc = "durcheck" /\ duration > 0 /\ elapsed > duration
                  /\ spc' = "done"
            \/ mpc = "close" /\ mpc' = "grace"]_vars

C7_Witness ==
    /\ errLog = 2 /\ stopChan = "open" /\ proc = "running"
    /\ spc = "select" /\ lastOutcome = "txErr"

\* C8: with pps <= 0 neither worker is ever started and no frame is sent.
C8_NonPositiveRateRejected ==
    pps <= 0 => rpc = "none" /\ spc = "none" /\ iters = 0 /\ txOk = 0

\* C9 as claimed: for pps > 0 the delay is the quotient 1000000 / pps in
\* microseconds and is strictly positive.
C9_DelayReciprocalAndPositive ==
    (pps > 0 /\ SenderInLoop) =>
        /\ sleepDuration * pps <= MicrosPerSecond
        /\ MicrosPerSecond < (sleepDuration + 1) * pps
        /\ sleepDuration > 0

\* C9 as amended: for pps > 0 the delay is the quotient 1000000 / pps
\* truncated to whole microseconds; it is strictly positive exactly when
\* pps <= 1000000 and zero for every larger rate.
C9_DelayTruncatedReciprocal ==
    (pps > 0 /\ SenderInLoop) =>
        /\ sleepDuration * pps <= MicrosPerSecond
        /\ MicrosPerSecond < (sleepDuration + 1) * pps
        /\ sleepDuration > 0 <=> pps <= MicrosPerSecond
        /\ sleepDuration >= 0

C9_Witness ==
    /\ pps = 1 /\ sleepDuration = 1000000 /\ spc = "sleep"
    /\ sleepLeft = sleepDuration

\* C10: with duration = 0 the sender never closes stopChan, and it stops
\* running only after main has closed stopChan.
C10_ZeroDurationStopsOnlyOnSignal ==
    duration = 0 =>
        /\ closedBy # "sender"
        /\ SenderLeftRunning => closedBy = "main"

C12_ReporterStopsAfterExpiry ==
    (pps > 0 /\ closedBy = "sender") ~> (rpc = "done")

\* C13: while the sender is in its n-th transmission attempt, n - 1 pacing
\* sleeps have been completed: one between any two consecutive attempts.
C13_OneSleepBetweenAttempts ==
    (pps > 0 /\ spc = "write") => sleeps = iters - 1

\* C14: the reporter prints at most one status line after stopChan has been
\* closed (valid rate).
C14_AtMostOneLineAfterStop == pps > 0 => linesAfterStop <= 1

\* C15: after stopChan has been closed at most one more counter update
\* happens, the sender that has returned leaves the counters alone, and it
\* returns only with stopChan closed.
C15_AtMostOneUpdateAfterStop ==
    /\ stopChan = "closed" => packetsSent <= packetsAtClose + 1
    /\ spc = "done" =>
          /\ stopChan = "closed"
          /\ packetsSent <= txOk /\ bytesSent = packetsSent * frameLen
          /\ closedBy = "sender" => packetsSent = packetsAtClose

C15_Witness ==
    /\ stopChan = "closed" /\ closedBy = "main" /\ spc = "done"
    /\ packetsAtClose = 1 /\ packetsSent = 2 /\ iters = 2

\* C16: the stored previous values never exceed the counters, no interval
\* is negative, and the intervals printed so far (with the one computed and
\* not yet printed) add up to the latest snapshot.
C16_IntervalsAddUpToSnapshot ==
    /\ lastPackets <= packetsSent /\ lastBytes <= bytesSent
    /\ intervalPackets >= 0 /\ intervalBytes >= 0
    /\ IF rpc \in {"unlock", "print"}
         THEN /\ linesPackets + intervalPackets = currentPackets
              /\ linesBytes + intervalBytes = currentBytes
         ELSE /\ linesPackets = lastPackets
              /\ linesBytes = lastBytes
    /\ rpc # "readB" =>
          lastPackets = currentPackets /\ lastBytes = currentBytes

C16_Witness ==
    /\ rpc = "select" /\ linesPackets = 2 /\ intervalPackets = 1
    /\ currentPackets = 2 /\ linesBytes = 2 * frameLen
    /\ intervalBytes = frameLen

\* Inside a critical section on the counters (between mu.Lock() and
\* mu.Unlock() of lines 157-164, 216-219 and 235-238).
InCritical(g) ==
    CASE g = "sender" -> spc \in {"incP", "addB", "unlock"}
      [] g = "reporter" -> rpc \in {"readP", "readB", "unlock"}
      [] g = "main" -> mpc \in {"readP", "readB", "unlock"}

\* C17 (safety part): at most one of the sender, the reporter and main is in
\* a critical section, the one that holds mu; a goroutine at mu.Lock() does
\* not hold mu; and a goroutine that sleeps, waits in a select or has
\* returned does not hold mu.
C17_ExclusionAndRelease ==
    /\ \A g \in {"sender", "reporter", "main"} : InCritical(g) <=> mu = g
    /\ Cardinality({g \in {"sender", "reporter", "main"} : InCritical(g)}) <= 1

\* C17: a goroutine waiting for the statistics lock eventually gets it.
\* Stated for the sender at mu.Lock() (line 216) of a run with a positive
\* rate and no duration limit, in which stopChan is closed at most once.
C17_WaiterGetsLock ==
    (pps > 0 /\ duration = 0 /\ spc = "lock") ~> (mu = "sender")

\* ============================================================ the receiver
RecvRunning == recvProc = "running"

\* mu.Lock() of the receiver returns only when no goroutine holds mu.
RecvMuFree == recvMu = "free"

\* case <-stopChan of the receiver's two selects.
RecvStopReady == recvStopChan = "closed"

\* ------------------------------------------------ receiver: main goroutine
\* Lines 18-75: flags, pcap.OpenLive, SetBPFFilter (log.Fatal on an error),
\* the packet source, signal.Notify, the counters and stopChan.
RecvMainSetup ==
    /\ RecvRunning /\ recvMpc = "setup"
    /\ \E ok \in BOOLEAN :
         IF ok THEN /\ recvMpc' = "goReporter"
                    /\ recvProc' = recvProc
               ELSE /\ recvMpc' = "fatal"
                    /\ recvProc' = "fatal"
    /\ UNCHANGED <<notRecv, recvRpc, recvWpc, recvChans, recvMu, recvCounters,
                   recvRepLocals, recvMainLocals, recvTimers, recvSource>>

\* go func() { ticker := time.NewTicker(...) ... }()
RecvMainGoReporter ==
    /\ RecvRunning /\ recvMpc = "goReporter"
    /\ recvMpc' = "goWorker"
    /\ recvRpc' = "select"
    /\ recvTickerLeft' = ReportIntervalSec * MicrosPerSecond
    /\ UNCHANGED <<notRecv, recvProc, recvWpc, recvChans, recvMu,
                   recvCounters, recvRepLocals, recvMainLocals, recvGraceLeft,
                   recvTickPending, recvSource>>

\* go func() { for { select { case packet := <-packetSource.Packets() ...
RecvMainGoWorker ==
    /\ RecvRunning /\ recvMpc = "goWorker"
    /\ recvMpc' = "wait"
    /\ recvWpc' = "select"
    /\ UNCHANGED <<notRecv, recvProc, recvRpc, recvChans, recvMu,
                   recvCounters, recvRepLocals, recvMainLocals, recvTimers,
                   recvSource>>

\* <-sigChan
RecvMainWait ==
    /\ RecvRunning /\ recvMpc = "wait"
    /\ recvSigPending
    /\ recvSigPending' = FALSE
    /\ recvMpc' = "close"
    /\ UNCHANGED <<notRecv, recvProc, recvRpc, recvWpc, recvStopChan,
                   recvClosedBy, recvMu, recvCounters, recvRepLocals,
                   recvMainLocals, recvTimers, recvSource>>

\* close(stopChan), then time.Sleep(200 * time.Millisecond) begins.
RecvMainClose ==
    /\ RecvRunning /\ recvMpc = "close"
    /\ IF recvStopChan = "closed"
         THEN /\ recvProc' = "panicClose"
              /\ UNCHANGED <<recvMpc, recvStopChan, recvClosedBy,
                             recvGraceLeft>>
         ELSE /\ recvStopChan' = "closed"
              /\ recvClosedBy' = "main"
              /\ recvMpc' = "grace"
              /\ recvGraceLeft' = GraceMicros
              /\ recvProc' = recvProc
    /\ UNCHANGED <<notRecv, recvRpc, recvWpc, recvSigPending, recvMu,
                   recvCounters, recvRepLocals, recvMainLocals,
                   recvTickerLeft, recvTickPending, recvSource>>

\* time.Sleep(200 * time.Millisecond) returns.
RecvMainGraceOver ==
    /\ RecvRunning /\ recvMpc = "grace"
    /\ recvGraceLeft <= 0
    /\ recvMpc' = "lock"
    /\ UNCHANGED <<notRecv, recvProc, recvRpc, recvWpc, recvChans, recvMu,
                   recvCounters, recvRepLocals, recvMainLocals, recvTimers,
                   recvSource>>

RecvMainLock ==
    /\ RecvRunning /\ recvMpc = "lock"
    /\ RecvMuFree
    /\ recvMu' = "main"
    /\ recvMpc' = "read"
    /\ UNCHANGED <<notRecv, recvProc, recvRpc, recvWpc, recvChans,
                   recvCounters, recvRepLocals, recvMainLocals, recvTimers,
                   recvSource>>

\* finalPackets := packetsReceived; finalBytes := bytesReceived
RecvMainRead ==
    /\ RecvRunning /\ recvMpc = "read"
    /\ recvFinalPackets' = packetsReceived
    /\ recvFinalBytes' = bytesReceived
    /\ recvMpc' = "unlock"
    /\ UNCHANGED <<notRecv, recvProc, recvRpc, recvWpc, recvChans, recvMu,
                   recvCounters, recvRepLocals, recvTimers, recvSource>>

RecvMainUnlock ==
    /\ RecvRunning /\ recvMpc = "unlock"
    /\ recvMu' = "free"
    /\ recvMpc' = "print"
    /\ UNCHANGED <<notRecv, recvProc, recvRpc, recvWpc, recvChans,
                   recvCounters, recvRepLocals, recvMainLocals, recvTimers,
                   recvSource>>

\* The summary is printed and main returns: the process ends, and with it
\* every goroutine that is still running.
RecvMainPrintExit ==
    /\ RecvRunning /\ recvMpc = "print"
    /\ recvMpc' = "done"
    /\ recvProc' = "exited"
    /\ UNCHANGED <<notRecv, recvRpc, recvWpc, recvChans, recvMu,
                   recvCounters, recvRepLocals, recvMainLocals, recvTimers,
                   recvSource>>

RecvMain ==
    \/ RecvMainSetup \/ RecvMainGoReporter \/ RecvMainGoWorker
    \/ RecvMainWait \/ RecvMainClose \/ RecvMainGraceOver \/ RecvMainLock
    \/ RecvMainRead \/ RecvMainUnlock \/ RecvMainPrintExit

\* ---------------------------------------------------- receiver: reporter
\* case <-ticker.C:
RecvReporterTick ==
    /\ RecvRunning /\ recvRpc = "select"
    /\ recvTickPending
    /\ recvTickPending' = FALSE
    /\ recvRpc' = "lock"
    /\ UNCHANGED <<notRecv, recvProc, recvMpc, recvWpc, recvChans, recvMu,
                   recvCounters, recvRepLocals, recvMainLocals, recvGraceLeft,
                   recvTickerLeft, recvSource>>

\* case <-stopChan: return
RecvReporterStop ==
    /\ RecvRunning /\ recvRpc = "select"
    /\ RecvStopReady
    /\ recvRpc' = "done"
    /\ UNCHANGED <<notRecv, recvProc, recvMpc, recvWpc, recvChans, recvMu,
                   recvCounters, recvRepLocals, recvMainLocals, recvTimers,
                   recvSource>>

RecvReporterLock ==
    /\ RecvRunning /\ recvRpc = "lock"
    /\ RecvMuFree
    /\ recvMu' = "reporter"
    /\ recvRpc' = "snapshot"
    /\ UNCHANGED <<notRecv, recvProc, recvMpc, recvWpc, recvChans,
                   recvCounters, recvRepLocals, recvMainLocals, recvTimers,
                   recvSource>>

\* Lines 89-94: the snapshot, the interval and the new last values.
RecvReporterSnapshot ==
    /\ RecvRunning /\ recvRpc = "snapshot"
    /\ recvCurrentPackets' = packetsReceived
    /\ recvCurrentBytes' = bytesReceived
    /\ recvLastPackets' = packetsReceived
    /\ recvLastBytes' = bytesReceived
    /\ recvRpc' = "unlock"
    /\ UNCHANGED <<notRecv, recvProc, recvMpc, recvWpc, recvChans, recvMu,
                   recvCounters, recvMainLocals, recvTimers, recvSource>>

RecvReporterUnlock ==
    /\ RecvRunning /\ recvRpc = "unlock"
    /\ recvMu' = "free"
    /\ recvRpc' = "print"
    /\ UNCHANGED <<notRecv, recvProc, recvMpc, recvWpc, recvChans,
                   recvCounters, recvRepLocals, recvMainLocals, recvTimers,
                   recvSource>>

\* fmt.Printf of the status line.
RecvReporterPrint ==
    /\ RecvRunning /\ recvRpc = "print"
    /\ recvRpc' = "select"
    /\ UNCHANGED <<notRecv, recvProc, recvMpc, recvWpc, recvChans, recvMu,
                   recvCounters, recvRepLocals, recvMainLocals, recvTimers,
                   recvSource>>

RecvReporter ==
    \/ RecvReporterTick \/ RecvReporterStop \/ RecvReporterLock
    \/ RecvReporterSnapshot \/ RecvReporterUnlock \/ RecvReporterPrint

\* ------------------------------------------- receiver: packet processing
\* case packet := <-packetSource.Packets(): a nil packet is skipped with
\* `continue`; otherwise packetSize := len(packet.Data()).
RecvWorkerPacket ==
    /\ RecvRunning /\ recvWpc = "select"
    /\ recvDelivered < MaxPackets
    /\ recvDelivered' = recvDelivered + 1
    /\ \E isNil \in BOOLEAN :
         IF isNil
           THEN UNCHANGED <<recvWpc, packetSize, recvCounted>>
           ELSE /\ \E n \in PacketSizes : packetSize' = n
                /\ recvCounted' = recvCounted + 1
                /\ recvWpc' = "lock"
    /\ UNCHANGED <<notRecv, recvProc, recvMpc, recvRpc, recvChans, recvMu,
                   recvCounters, recvRepLocals, recvMainLocals, recvTimers>>

\* case <-stopChan: return
RecvWorkerStop ==
    /\ RecvRunning /\ recvWpc = "select"
    /\ RecvStopReady
    /\ recvWpc' = "done"
    /\ UNCHANGED <<notRecv, recvProc, recvMpc, recvRpc, recvChans, recvMu,
                   recvCounters, recvRepLocals, recvMainLocals, recvTimers,
                   recvSource>>

RecvWorkerLock ==
    /\ RecvRunning /\ recvWpc = "lock"
    /\ RecvMuFree
    /\ recvMu' = "worker"
    /\ recvWpc' = "incP"
    /\ UNCHANGED <<notRecv, recvProc, recvMpc, recvRpc, recvChans,
                   recvCounters, recvRepLocals, recvMainLocals, recvTimers,
                   recvSource>>

\* packetsReceived++
RecvWorkerIncPackets ==
    /\ RecvRunning /\ recvWpc = "incP"
    /\ packetsReceived' = packetsReceived + 1
    /\ recvWpc' = "addB"
    /\ UNCHANGED <<notRecv, recvProc, recvMpc, recvRpc, recvChans, recvMu,
                   bytesReceived, recvRepLocals, recvMainLocals, recvTimers,
                   recvSource>>

\* bytesReceived += uint64(packetSize)
RecvWorkerAddBytes ==
    /\ RecvRunning /\ recvWpc = "addB"
    /\ bytesReceived' = AddBytes(bytesReceived, packetSize)
    /\ recvWpc' = "unlock"
    /\ UNCHANGED <<notRecv, recvProc, recvMpc, recvRpc, recvChans, recvMu,
                   packetsReceived, recvRepLocals, recvMainLocals, recvTimers,
                   recvSource>>

RecvWorkerUnlock ==
    /\ RecvRunning /\ recvWpc = "unlock"
    /\ recvMu' = "free"
    /\ recvWpc' = "select"
    /\ UNCHANGED <<notRecv, recvProc, recvMpc, recvRpc, recvChans,
                   recvCounters, recvRepLocals, recvMainLocals, recvTimers,
                   recvSource>>

RecvWorker ==
    \/ RecvWorkerPacket \/ RecvWorkerStop \/ RecvWorkerLock
    \/ RecvWorkerIncPackets \/ RecvWorkerAddBytes \/ RecvWorkerUnlock

\* ------------------------------------------------- receiver: environment
\* An os.Interrupt arrives after signal.Notify.
RecvInterrupt ==
    /\ RecvRunning /\ recvMpc # "setup"
    /\ ~recvSigPending
    /\ recvSigPending' = TRUE
    /\ UNCHANGED <<notRecv, recvCtl, recvStopChan, recvClosedBy, recvMu,
                   recvCounters, recvRepLocals, recvMainLocals, recvTimers,
                   recvSource>>

\* TickMicros of wall-clock time pass.
RecvTick ==
    /\ RecvRunning /\ recvMpc # "setup"
    /\ recvGraceLeft' = IF recvMpc = "grace" /\ recvGraceLeft > 0
                          THEN recvGraceLeft - TickMicros ELSE recvGraceLeft
    /\ IF recvRpc \in {"none", "done"}
         THEN UNCHANGED <<recvTickerLeft, recvTickPending>>
         ELSE IF recvTickerLeft - TickMicros <= 0
                THEN /\ recvTickerLeft' = ReportIntervalSec * MicrosPerSecond
                     /\ recvTickPending' = TRUE
                ELSE /\ recvTickerLeft' = recvTickerLeft - TickMicros
                     /\ recvTickPending' = recvTickPending
    /\ UNCHANGED <<notRecv, recvCtl, recvChans, recvMu, recvCounters,
                   recvRepLocals, recvMainLocals, recvSource>>

RecvNext == RecvMain \/ RecvReporter \/ RecvWorker \/ RecvInterrupt \/ RecvTick

\* The generator stays as configured with -pps 1 and no -duration.
RecvStart == Init /\ pps = 1 /\ duration = 0

RecvSpec == RecvStart /\ [][RecvNext]_vars

\* As for the generator: every runnable goroutine runs eventually, the clock
\* advances, mu is handed to a waiter eventually, and a select case that is
\* ready again and again is eventually taken.  No interrupt is promised.
RecvFairness ==
    /\ WF_vars(RecvTick)
    /\ WF_vars(RecvMain) /\ SF_vars(RecvMainLock)
    /\ WF_vars(RecvReporter) /\ SF_vars(RecvReporterLock)
    /\ SF_vars(RecvReporterStop)
    /\ WF_vars(RecvWorker) /\ SF_vars(RecvWorkerLock)
    /\ SF_vars(RecvWorkerStop)

RecvFairSpec == RecvSpec /\ RecvFairness

\* C18 (safety part): stopChan of the receiver is closed only by main, after
\* an interrupt was taken from sigChan, and never a second time (no panic);
\* the counters change only by the packet goroutine's increments while it
\* holds mu.
C18_ClosedOnceCountersUnderLock ==
    [][/\ recvProc' # "panicClose"
       /\ recvStopChan' # recvStopChan =>
            recvMpc = "close" /\ recvStopChan = "open" /\ recvClosedBy' = "main"
       /\ packetsReceived' # packetsReceived =>
            /\ recvWpc = "incP" /\ recvMu = "worker" /\ recvMu' = "worker"
            /\ packetsReceived' = packetsReceived + 1
       /\ bytesReceived' # bytesReceived =>
            /\ recvWpc = "addB" /\ recvMu = "worker" /\ recvMu' = "worker"
            /\ bytesReceived' = bytesReceived + packetSize]_vars

\* C18: after stopChan of the receiver is closed, the reporter and the
\* packet processing goroutine both return.
C18_WorkersReturnAfterClose ==
    (recvStopChan = "closed") ~> (recvRpc = "done" /\ recvWpc = "done")

\* ============================================== the proxy's CONNECT tunnel
\* transfer(destination, source): "up" copies from the client to the
\* destination host, "down" copies back.
SrcOf(w) == IF w = "up" THEN "client" ELSE "dest"
DstOf(w) == IF w = "up" THEN "dest" ELSE "client"

\* The local state of a connection.
ConnState(c) == IF c = "client" THEN clientConn ELSE destConn

LeftOpen(st) == st

\* net.Conn.Close(): the connection is closed; closing it again only
\* returns an error, which transfer ignores.
AfterClose(st) == "closed"

\* The copy of w has ended: io.Copy has returned.
CopyEnded(w) == tpc[w] \in {"closeSrc", "closeDst", "done"}

\* ------------------------------------------------------- handleTunneling
\* destConn, err := net.Dial("tcp", host); on an error: 503 and return.
HandlerDial ==
    /\ hpc = "dial"
    /\ \E ok \in BOOLEAN :
         IF ok THEN /\ destConn' = "open"
                    /\ hpc' = "writeHeader"
                    /\ handlerPath' = handlerPath
               ELSE /\ destConn' = destConn
                    /\ hpc' = "returned"
                    /\ handlerPath' = "dialErr"
    /\ UNCHANGED <<notTun, clientConn, tpc, tunPeers, forwarded>>

\* w.WriteHeader(http.StatusOK)
HandlerWriteHeader ==
    /\ hpc = "writeHeader"
    /\ hpc' = "assert"
    /\ UNCHANGED <<notTun, handlerPath, tunConns, tpc, tunPeers, forwarded>>

\* hijacker, ok := w.(http.Hijacker); if !ok: 500 and return.
HandlerAssertHijacker ==
    /\ hpc = "assert"
    /\ \E ok \in BOOLEAN :
         IF ok THEN /\ hpc' = "hijack"
                    /\ handlerPath' = handlerPath
               ELSE /\ hpc' = "returned"
                    /\ handlerPath' = "noHijacker"
    /\ UNCHANGED <<notTun, tunConns, tpc, tunPeers, forwarded>>

\* clientConn, _, err := hijacker.Hijack(); on an error: 503 and return.
HandlerHijack ==
    /\ hpc = "hijack"
    /\ \E ok \in BOOLEAN :
         IF ok THEN /\ clientConn' = "open"
                    /\ hpc' = "goUp"
                    /\ handlerPath' = handlerPath
               ELSE /\ clientConn' = clientConn
                    /\ hpc' = "returned"
                    /\ handlerPath' = "hijackErr"
    /\ UNCHANGED <<notTun, destConn, tpc, tunPeers, forwarded>>

\* go transfer(destConn, clientConn)
HandlerGoUp ==
    /\ hpc = "goUp"
    /\ tpc' = [tpc EXCEPT !["up"] = "read"]
    /\ hpc' = "goDown"
    /\ UNCHANGED <<notTun, handlerPath, tunConns, tunPeers, forwarded>>

\* go transfer(clientConn, destConn), and the handler returns.
HandlerGoDown ==
    /\ hpc = "goDown"
    /\ tpc' = [tpc EXCEPT !["down"] = "read"]
    /\ hpc' = "returned"
    /\ handlerPath' = "tunnel"
    /\ UNCHANGED <<notTun, tunConns, tunPeers, forwarded>>

Handler ==
    \/ HandlerDial \/ HandlerWriteHeader \/ HandlerAssertHijacker
    \/ HandlerHijack \/ HandlerGoUp \/ HandlerGoDown

\* -------------------------------------------------------------- transfer
\* io.Copy: source.Read.  It fails on a connection this process has
\* closed, returns a chunk that has arrived, returns io.EOF once the remote
\* end has closed, and blocks otherwise.
TransferRead(w) ==
    /\ tpc[w] = "read"
    /\ IF ConnState(SrcOf(w)) = "closed"
         THEN /\ tpc' = [tpc EXCEPT ![w] = "closeSrc"]
              /\ inbound' = inbound
         ELSE IF inbound[SrcOf(w)] > 0
                THEN /\ inbound' = [inbound EXCEPT ![SrcOf(w)] = @ - 1]
                     /\ tpc' = [tpc EXCEPT ![w] = "write"]
                ELSE /\ peer[SrcOf(w)] = "closed"
                     /\ tpc' = [tpc EXCEPT ![w] = "closeSrc"]
                     /\ inbound' = inbound
    /\ UNCHANGED <<notTun, hpc, handlerPath, tunConns, peer, sent, forwarded>>

\* io.Copy: destination.Write.  It fails on a connection this process has
\* closed or whose remote end is gone; otherwise the chunk is written.
TransferWrite(w) ==
    /\ tpc[w] = "write"
    /\ IF ConnState(DstOf(w)) = "closed" \/ peer[DstOf(w)] = "closed"
         THEN /\ tpc' = [tpc EXCEPT ![w] = "closeSrc"]
              /\ forwarded' = forwarded
         ELSE /\ tpc' = [tpc EXCEPT ![w] = "read"]
              /\ forwarded' = [forwarded EXCEPT ![w] = @ + 1]
    /\ UNCHANGED <<notTun, hpc, handlerPath, tunConns, tunPeers>>

\* defer source.Close(): deferred last, so it runs first.
TransferCloseSource(w) ==
    /\ tpc[w] = "closeSrc"
    /\ IF SrcOf(w) = "client"
         THEN /\ clientConn' = AfterClose(clientConn)
              /\ destConn' = destConn
         ELSE /\ destConn' = AfterClose(destConn)
              /\ clientConn' = clientConn
    /\ tpc' = [tpc EXCEPT ![w] = "closeDst"]
    /\ UNCHANGED <<notTun, hpc, handlerPath, tunPeers, forwarded>>

\* defer destination.Close(), and transfer returns.
TransferCloseDestination(w) ==
    /\ tpc[w] = "closeDst"
    /\ IF DstOf(w) = "client"
         THEN /\ clientConn' = AfterClose(clientConn)
              /\ destConn' = destConn
         ELSE /\ destConn' = AfterClose(destConn)
              /\ clientConn' = clientConn
    /\ tpc' = [tpc EXCEPT ![w] = "done"]
    /\ UNCHANGED <<notTun, hpc, handlerPath, tunPeers, forwarded>>

Transfer(w) ==
    \/ TransferRead(w) \/ TransferWrite(w)
    \/ TransferCloseSource(w) \/ TransferCloseDestination(w)

\* ------------------------------------------------------ the remote ends
\* The client (once its connection is hijacked) or the destination host
\* (once dialed) sends a chunk.
PeerSend(c) ==
    /\ ConnState(c) = "open"
    /\ peer[c] = "open"
    /\ sent[c] < MaxChunks
    /\ sent' = [sent EXCEPT ![c] = @ + 1]
    /\ inbound' = [inbound EXCEPT ![c] = @ + 1]
    /\ UNCHANGED <<notTun, hpc, handlerPath, tunConns, tpc, peer, forwarded>>

\* A remote end closes or resets its connection.
PeerClose(c) ==
    /\ ConnState(c) = "open"
    /\ peer[c] = "open"
    /\ peer' = [peer EXCEPT ![c] = "closed"]
    /\ UNCHANGED <<notTun, hpc, handlerPath, tunConns, tpc, inbound, sent,
                   forwarded>>

Peers == \E c \in Conns : PeerSend(c) \/ PeerClose(c)

TunNext == Handler \/ Transfer("up") \/ Transfer("down") \/ Peers

\* The generator stays as configured with -pps 1 and no -duration.
TunStart == Init /\ pps = 1 /\ duration = 0

TunSpec == TunStart /\ [][TunNext]_vars

\* The handler and both transfer goroutines run when they can; nothing is
\* promised about the remote ends.
TunFairness ==
    /\ WF_vars(Handler)
    /\ WF_vars(Transfer("up")) /\ WF_vars(Transfer("down"))

TunFairSpec == TunSpec /\ TunFairness

\* C19: when the copy of either direction has ended, both connections get
\* closed and both transfer goroutines return; a transfer goroutine that
\* has returned leaves both connections closed.
C19_EitherEndClosesBoth ==
    /\ [](\A w \in Directions :
            tpc[w] = "done" => clientConn = "closed" /\ destConn = "closed")
    /\ (\E w \in Directions : CopyEnded(w))
         ~> /\ clientConn = "closed" /\ destConn = "closed"
            /\ \A w \in Directions : tpc[w] = "done"

\* The upward copy ended on the client's EOF while the downward copy was
\* blocked reading from an open destination, after one chunk went each
\* way; both goroutines have returned.
C19_Witness ==
    /\ \A w \in Directions : tpc[w] = "done" /\ forwarded[w] = 1
    /\ peer["client"] = "closed" /\ peer["dest"] = "open"
    /\ clientConn = "closed" /\ destConn = "closed"

\* The transfer goroutines own the connections.
Relaying == \E w \in Directions : tpc[w] \notin {"none", "done"}

\* C20: a destination connection that was dialed is eventually closed,
\* unless a transfer goroutine keeps relaying over it.
C20_DialedDestinationClosed ==
    (destConn = "open") ~> (destConn = "closed" \/ Relaying)


====
